---- MODULE Spec2Model ----
(***************************************************************************)
(* A model of the hiera lookup core: the session's shared cache with the   *)
(* single-flight config memoization of ivContext.Config, the invocation's  *)
(* scoped operations (WithKey, the With and Report families), Lookup, and  *)
(* the provider cache of serverCtx.                                        *)
(***************************************************************************)
EXTENDS Integers, Sequences, FiniteSets, TLC

(***************************************************************************)
(* Bounds of the model.                                                    *)
(***************************************************************************)
NumCallers == 3
MaxCalls == 2
MaxDepth == 2
MaxWrites == 3
NumCachers == 2

Callers == 1..NumCallers
Paths == {"hiera.yaml"}
Modules == {"m1", "m2"}

(***************************************************************************)
(* Keys as the engine gets them: already parsed into a root, the path      *)
(* segments to dig and the source string.                                  *)
(***************************************************************************)
Keys ==
    { [source |-> "a", root |-> "a", path |-> <<>>],
      [source |-> "a.b", root |-> "a", path |-> <<"b">>],
      [source |-> "lookup_options", root |-> "lookup_options", path |-> <<>>],
      [source |-> "lookup_options.a", root |-> "lookup_options", path |-> <<"a">>] }

Nil == "nil"
Values == {"v1", "v2"}

\* px.Undef, the value that stands for "undefined"
Undef == "undef"

\* Keys and values a provider puts into its cache.
ProviderKeys == {"x", "y"}
ProviderValues == Values \cup {Undef}

(***************************************************************************)
(* Cache key namespaces of the shared cache (session.go:311-312).          *)
(***************************************************************************)
hieraConfigsPrefix == "HieraConfig:"
hieraLockPrefix == "HieraLock:"

Absent == [type |-> "absent"]
NoRC == [type |-> "none"]
NoRet == [type |-> "none"]

VARIABLES
    \* ---- session: the shared cache and the locks published into it ----
    sc,          \* SharedCache: <<prefix, path>> -> Absent | lock | config
    wlocked,     \* the RWMutexes that are write-locked (lock ids)
    readers,     \* pairs <<lock id, caller>>: read locks held
    newCount,    \* per path: how often config.New(path) was entered
    built,       \* the Config objects whose construction has finished
    \* ---- one invocation per caller, and its running Config call ----
    pc,          \* position of the caller in Config
    arg,         \* [path, module] of the running call
    calls,       \* number of Config calls the invocation has made
    myLock,      \* id of the RWMutex created by the running call
    lv,          \* value returned by LoadOrStore
    conf,        \* local conf
    configs,     \* ic.configs: path -> ResolvedConfig
    ret          \* what the last finished call returned

VARIABLES
    \* ---- one invocation (ivContext) running a lookup, and its explainer ----
    explainerOn, \* ic.explainer != nil
    expl,        \* the explainer: frame stack, accepted events, last event
    nameStack,   \* ic.nameStack
    ctl,         \* the scoped operations whose actor is running, outermost first
    panic,       \* the value of the panic that is unwinding, or "none"
    producerEvals, \* how often the most recent operation evaluated a message producer
    last         \* what the most recent operation did

VARIABLES
    \* ---- further fields of the same invocation ----
    mode,        \* ic.mode
    explKind,    \* what the attached explainer is set to explain
    scope,       \* ic.scope
    luOpts,      \* ic.luOpts
    strategy,    \* ic.strategy
    redacted     \* ic.redacted

VARIABLES
    \* ---- the provider cache of the session, used through serverCtx ----
    cache,       \* c.cache: key -> value, or Absent
    hist,        \* the writes asked for so far, oldest first
    cacheLast,   \* the most recent cache operation and what it returned
    cacheCall    \* per goroutine: its running Cache call, between the two
                 \* operations it makes on the sync.Map

configVars == <<sc, wlocked, readers, newCount, built, pc, arg, calls, myLock,
                lv, conf, configs, ret>>
frameVars == <<explainerOn, expl, nameStack, ctl, panic, producerEvals, last>>

cacheVars == <<cache, hist, cacheLast, cacheCall>>

ivVars == <<mode, explKind, luOpts, strategy>>

vars == <<configVars, frameVars, cacheVars, ivVars, redacted, scope>>

\* What the operations of one part of the program leave alone.
notConfigVars == <<frameVars, cacheVars, ivVars, redacted, scope>>
notFrameVars == <<configVars, cacheVars, ivVars, redacted, scope>>
notCacheVars == <<configVars, frameVars, ivVars, redacted, scope>>

\* What the end of a scoped operation leaves alone: its deferred function
\* may reset the redaction flag, and DoWithScope sets the scope back.
notScopedVars == <<configVars, cacheVars, ivVars>>

SharedCacheKeys == {hieraConfigsPrefix, hieraLockPrefix} \X Paths
NoArg == [path |-> "", module |-> ""]
NoLock == <<0, 0>>

\* A lock placeholder and a Config as values of the shared cache.
LockVal(id) == [type |-> "lock", id |-> id]
ConfigVal(path, id) == [type |-> "config", path |-> path, id |-> id]

\* Resolve(ic, conf, moduleName): the Config bound to a module name.
Resolve(cf, moduleName) == [type |-> "rc", conf |-> cf, module |-> moduleName]

\* sync.Map.Load
Load(m, k) == [ok |-> m[k] # Absent, val |-> m[k]]

\* sync.Map.Store
Store(m, k, v) == [m EXCEPT ![k] = v]

\* A LoadOrStore that always stores: two racing callers both win.
LoadOrStoreAlwaysStores(m, k, v) == [loaded |-> FALSE, val |-> v, map |-> Store(m, k, v)]

\* sync.Map.LoadOrStore: the existing value if present, else stores v.
LoadOrStore(m, k, v) ==
    IF m[k] # Absent
    THEN [loaded |-> TRUE, val |-> m[k], map |-> m]
    ELSE [loaded |-> FALSE, val |-> v, map |-> Store(m, k, v)]

(***************************************************************************)
(* The explainer (hieraapi.Explainer): a stack of context frames and a     *)
(* sink of leaf events.  Its log holds what it received during the most    *)
(* recent operation of the invocation, each entry with the frame that was  *)
(* innermost when it arrived.                                              *)
(***************************************************************************)
NoFrame == "none"
NewExplainer == [stack |-> <<>>, log |-> <<>>]

Front(s) == SubSeq(s, 1, Len(s) - 1)
Top(s) == IF s = <<>> THEN NoFrame ELSE s[Len(s)]

Push(e, kind) ==
    [e EXCEPT !.stack = Append(@, kind),
              !.log = Append(@, [call |-> "Push", kind |-> kind, payload |-> Nil,
                                 frame |-> Top(e.stack)])]
Pop(e) ==
    [e EXCEPT !.stack = Front(@),
              !.log = Append(@, [call |-> "Pop", kind |-> Top(e.stack), payload |-> Nil,
                                 frame |-> Top(e.stack)])]
Accept(e, kind, payload) ==
    [e EXCEPT !.log = Append(@, [call |-> "Accept", kind |-> kind, payload |-> payload,
                                 frame |-> Top(e.stack)])]

\* The explainer as an operation of the invocation finds it.
AtStart(e) == [e EXCEPT !.log = <<>>]

WithKinds == {"DataProvider", "Interpolation", "InvalidKey", "Location",
              "Lookup", "Merge", "Segment", "SubLookup"}

NoOp == [op |-> "none"]

\* invocationMode
topLevelMode == "topLevelMode"
lookupOptionsMode == "lookupOptionsMode"
dataMode == "dataMode"
Modes == {topLevelMode, lookupOptionsMode, dataMode}

\* An explainer explains everything ("plain"), the lookup options too
\* (Options() is true) or only the lookup options (OnlyOptions() is true).
ExplainerKinds == {"plain", "options", "onlyOptions"}

Scopes == {"s0", "s1"}

\* dgo values as the options hold them: nil, a string, an array, a map with
\* or without a `strategy` entry, and a value of another type.
NoOpt == [type |-> "nil"]
Str(x) == [type |-> "string", s |-> x]
Arr(xs) == [type |-> "array", elems |-> xs]
MapOpt(st) == [type |-> "map", strategy |-> st]
IntOpt == [type |-> "int"]

\* A lookup-options map with its `merge` and `convert_to` entries.
LuOpts(mergeEntry, convertTo) ==
    [type |-> "map", merge |-> mergeEntry, convert_to |-> convertTo]

ConvertTos == {NoOpt, Str("Sensitive"), Str("String"), Arr(<<>>),
               Arr(<<"Sensitive">>), Arr(<<"String", "arg">>)}

\* A nil lookup-options map and a nil merge strategy
NoLuOpts == [type |-> "nil"]
NoStrategy == [type |-> "nil"]

\* ic.extractConversion(): the type named by `convert_to`, and the arguments
NoConversion == [type |-> "none", hasArgs |-> FALSE, args |-> <<>>]
extractConversion(lo) ==
    IF lo = NoLuOpts THEN NoConversion
    ELSE LET ct == lo.convert_to IN
      IF ct = NoOpt THEN NoConversion
      ELSE IF ct.type = "array"
      THEN IF Len(ct.elems) = 0 THEN NoConversion
           ELSE IF Len(ct.elems) = 1
           THEN [type |-> ct.elems[1], hasArgs |-> FALSE, args |-> <<>>]
           ELSE [type |-> ct.elems[1], hasArgs |-> TRUE, args |-> Tail(ct.elems)]
      ELSE [type |-> ct.s, hasArgs |-> FALSE, args |-> <<>>]

\* if v != nil && convertToType != nil { .. v = vf.New(convertToType, v) }
Convert(cv, v) ==
    IF v # Nil /\ cv.type # "none"
    THEN [type |-> cv.type, of |-> IF cv.hasArgs THEN <<v>> \o cv.args ELSE <<v>>]
    ELSE [type |-> "raw", of |-> <<v>>]

\* An invocation with nothing running on it: its explainer (nil when kind
\* is "nil"), mode, redaction flag, scope and lookup options.
InvocationInit(kind, m, red, s, lo) ==
    /\ explainerOn = (kind # "nil")
    /\ explKind = IF kind = "nil" THEN "plain" ELSE kind
    /\ expl = NewExplainer
    /\ nameStack = <<>>
    /\ ctl = <<>>
    /\ panic = "none"
    /\ producerEvals = 0
    /\ last = NoOp
    /\ mode = m
    /\ redacted = red
    /\ scope = s
    /\ luOpts = lo
    /\ strategy = NoStrategy

\* The invocation as a value (*ic): the fields that a shallow copy copies.
Ic ==
    [mode |-> mode, explainer |-> IF explainerOn THEN explKind ELSE "nil",
     redacted |-> redacted, scope |-> scope, nameStack |-> nameStack,
     luOpts |-> luOpts, strategy |-> strategy]

\* The fields of the invocation after an operation that worked on ic.
SetIc(ic) ==
    /\ mode' = ic.mode
    /\ explainerOn' = (ic.explainer # "nil")
    /\ explKind' = IF ic.explainer = "nil" THEN explKind ELSE ic.explainer
    /\ redacted' = ic.redacted
    /\ scope' = ic.scope
    /\ nameStack' = ic.nameStack
    /\ luOpts' = ic.luOpts
    /\ strategy' = ic.strategy

\* explainer.Options(), explainer.OnlyOptions()
Options(x) == x = "options"
OnlyOptions(x) == x = "onlyOptions"

\* What a derivation returns: the invocation it was called on as it is
\* afterwards (parent), the invocation returned (ret), and whether the two
\* are the same object.
Derived(parent, r, same) == [parent |-> parent, ret |-> r, same |-> same]

\* ic.ForConfig()
ForConfig(ic) ==
    IF ic.explainer = "nil"
    THEN Derived(ic, ic, TRUE)
    ELSE Derived(ic, [ic EXCEPT !.explainer = "nil"], FALSE)

\* A ForData that switches the invocation it is called on to data mode.
ForDataInPlace(ic) ==
    LET lic == [ic EXCEPT !.mode = dataMode] IN Derived(lic, lic, TRUE)

\* ic.ForData()
ForData(ic) ==
    IF ic.mode = dataMode
    THEN Derived(ic, ic, TRUE)
    ELSE Derived(ic,
                 [ic EXCEPT !.explainer =
                               IF ~(@ = "nil" \/ ~OnlyOptions(@)) THEN "nil" ELSE @,
                            !.mode = dataMode],
                 FALSE)

\* ic.ForLookupOptions()
ForLookupOptions(ic) ==
    IF ic.mode = lookupOptionsMode
    THEN Derived(ic, ic, TRUE)
    ELSE Derived(ic,
                 [ic EXCEPT !.explainer =
                               IF ~(@ = "nil" \/ Options(@) \/ OnlyOptions(@))
                               THEN "nil" ELSE @,
                            !.mode = lookupOptionsMode],
                 FALSE)

\* An invocation as newInvocation makes it.
RootInvocations ==
    {[mode |-> topLevelMode, explainer |-> x, redacted |-> FALSE, scope |-> s,
      nameStack |-> <<>>, luOpts |-> NoLuOpts, strategy |-> NoStrategy] :
        x \in {"nil"} \cup ExplainerKinds, s \in Scopes}

Derive1(S) ==
    S \cup {ForConfig(ic).ret : ic \in S}
      \cup {ForData(ic).ret : ic \in S}
      \cup {ForLookupOptions(ic).ret : ic \in S}

RECURSIVE Derivable(_)
\* The invocations that derivations make of the ones in S.
Derivable(S) == IF Derive1(S) = S THEN S ELSE Derivable(Derive1(S))

\* newInvocation: an empty nameStack, top-level mode; the explainer is the
\* one passed in.
FrameInit(on) ==
    InvocationInit(IF on THEN "plain" ELSE "nil", topLevelMode, FALSE, "s0", NoLuOpts)

\* Code of the invocation runs: no panic is unwinding.
Running == panic = "none"

\* A derivation is called on the invocation.
CallFor(name, r) ==
    /\ Running
    /\ SetIc(r.parent)
    /\ last' = [op |-> name, before |-> Ic, ret |-> r.ret, same |-> r.same]
    /\ expl' = AtStart(expl)
    /\ producerEvals' = 0
    /\ UNCHANGED <<ctl, panic>>
    /\ UNCHANGED <<configVars, cacheVars>>

CallForConfig == CallFor("ForConfig", ForConfig(Ic))
CallForData == CallFor("ForData", ForData(Ic))
CallForLookupOptions == CallFor("ForLookupOptions", ForLookupOptions(Ic))

(***************************************************************************)
(* WithKey and the With family.  The actor of a scoped operation is a      *)
(* closure that may call further scoped operations, return, or panic: ctl  *)
(* holds one frame per running actor, with the deferred functions of the   *)
(* operation that called it.                                               *)
(***************************************************************************)

\* A WithKey that pushes without looking for the key on the nameStack.
WithKeyNoCheck(k) ==
    /\ Running
    /\ Len(ctl) < MaxDepth
    /\ nameStack' = Append(nameStack, k.source)
    /\ ctl' = Append(ctl, [op |-> "WithKey", key |-> k.source, deferPop |-> FALSE,
                                 before |-> nameStack])
    /\ last' = [op |-> "WithKey", key |-> k.source, recursive |-> FALSE,
                before |-> nameStack]
    /\ expl' = AtStart(expl)
    /\ UNCHANGED <<panic, explainerOn>>
    /\ producerEvals' = 0
    /\ UNCHANGED notFrameVars

\* ic.WithKey(key, actor), up to the call of the actor
WithKey(k) ==
    /\ Running
    /\ IF \E i \in 1..Len(nameStack) : nameStack[i] = k.source
       THEN /\ panic' = "recursive"
            /\ last' = [op |-> "WithKey", key |-> k.source, recursive |-> TRUE,
                        before |-> nameStack]
            /\ UNCHANGED <<nameStack, ctl>>
       ELSE /\ Len(ctl) < MaxDepth
            /\ nameStack' = Append(nameStack, k.source)
            /\ ctl' = Append(ctl, [op |-> "WithKey", key |-> k.source, deferPop |-> FALSE,
                                 before |-> nameStack])
            /\ last' = [op |-> "WithKey", key |-> k.source, recursive |-> FALSE,
                        before |-> nameStack]
            /\ UNCHANGED panic
    /\ expl' = AtStart(expl)
    /\ UNCHANGED <<explainerOn>>
    /\ producerEvals' = 0
    /\ UNCHANGED notFrameVars

\* The body shared by the eight With operations, up to the call of the actor:
\*   if ic.explainer == nil { return actor() }
\*   defer ic.explainer.Pop(); ic.explainer.PushX(..); return actor()
WithOp(kind) ==
    /\ Running
    /\ Len(ctl) < MaxDepth
    /\ IF ~explainerOn
       THEN /\ ctl' = Append(ctl, [op |-> kind, key |-> Nil, deferPop |-> FALSE,
                                       before |-> nameStack])
            /\ expl' = AtStart(expl)
       ELSE /\ expl' = Push(AtStart(expl), kind)
            /\ ctl' = Append(ctl, [op |-> kind, key |-> Nil, deferPop |-> TRUE,
                                       before |-> nameStack])
    /\ last' = [op |-> "With", kind |-> kind, actorRuns |-> 1]
    /\ UNCHANGED <<explainerOn, nameStack, panic>>
    /\ producerEvals' = 0
    /\ UNCHANGED notFrameVars

WithDataProvider == WithOp("DataProvider")
WithInterpolation == WithOp("Interpolation")
WithInvalidKey == WithOp("InvalidKey")
WithLocation == WithOp("Location")
WithLookup == WithOp("Lookup")
WithMerge == WithOp("Merge")
WithSegment == WithOp("Segment")
WithSubLookup == WithOp("SubLookup")

\* Deferred functions of which WithKey's drops the oldest name, not the one
\* it appended.
RunDeferredDropsFirst ==
    LET f == ctl[Len(ctl)] IN
      /\ ctl' = Front(ctl)
      /\ IF f.op = "WithKey"
         THEN /\ nameStack' = Tail(nameStack)
              /\ expl' = AtStart(expl)
         ELSE /\ expl' = IF f.deferPop THEN Pop(AtStart(expl)) ELSE AtStart(expl)
              /\ UNCHANGED nameStack
      /\ redacted' = IF f.op = "DoRedacted" /\ f.deferReset THEN FALSE ELSE redacted

\* The deferred function of the innermost running operation runs and its
\* frame is left: WithKey's truncates the nameStack, a With operation's is
\* ic.explainer.Pop(), deferred only when an explainer was attached.
RunDeferred ==
    LET f == ctl[Len(ctl)] IN
      /\ ctl' = Front(ctl)
      /\ IF f.op = "WithKey"
         THEN /\ nameStack' = Front(nameStack)
              /\ expl' = AtStart(expl)
         ELSE /\ expl' = IF f.deferPop THEN Pop(AtStart(expl)) ELSE AtStart(expl)
              /\ UNCHANGED nameStack
      /\ redacted' = IF f.op = "DoRedacted" /\ f.deferReset THEN FALSE ELSE redacted

\* The innermost actor returns normally; what LookupAndConvertData returns is
\* the value of fn, converted.
ActorReturn ==
    /\ Running
    /\ ctl # <<>>
    /\ RunDeferred
    /\ \E v \in (IF ctl[Len(ctl)].op = "LookupAndConvertData"
                 THEN Values \cup {Nil} ELSE {Nil}) :
          last' = [op |-> "return", of |-> ctl[Len(ctl)].op,
                   before |-> ctl[Len(ctl)].before,
                   result |-> IF ctl[Len(ctl)].op = "LookupAndConvertData"
                              THEN Convert(ctl[Len(ctl)].conversion, v)
                              ELSE Convert(NoConversion, v)]
    /\ UNCHANGED <<explainerOn, panic>>
    /\ producerEvals' = 0
    /\ scope' = IF ctl[Len(ctl)].op = "DoWithScope" THEN ctl[Len(ctl)].sc ELSE scope
    /\ UNCHANGED notScopedVars

\* A DoRedacted that defers the reset of the flag whether or not the flag
\* was set.
DeferResetAlways == TRUE

\* if ic.redacted { doer() } else { defer func() { ic.redacted = false }() .. }
DeferReset == ~redacted

\* The frame of a running doer of DoRedacted.
RedactedFrame ==
    [op |-> "DoRedacted", key |-> Nil, deferPop |-> FALSE, before |-> nameStack,
     deferReset |-> DeferReset, was |-> redacted]

\* ic.DoRedacted(doer), up to the call of the doer:
\*   if ic.redacted { doer() }
\*   else { defer func() { ic.redacted = false }(); ic.redacted = true; doer() }
DoRedacted ==
    /\ Running
    /\ Len(ctl) < MaxDepth
    /\ ctl' = Append(ctl, RedactedFrame)
    /\ redacted' = TRUE
    /\ last' = [op |-> "DoRedacted", was |-> redacted]
    /\ expl' = AtStart(expl)
    /\ producerEvals' = 0
    /\ UNCHANGED <<explainerOn, nameStack, panic>>
    /\ UNCHANGED scope
    /\ UNCHANGED notScopedVars

\* ic.DoWithScope(scope, doer), up to the call of the doer:
\*   sc := ic.scope; ic.scope = scope; doer(); ic.scope = sc
\* The assignment after doer() is made when the doer returns (ActorReturn);
\* nothing is deferred.
DoWithScope(s) ==
    /\ Running
    /\ Len(ctl) < MaxDepth
    /\ ctl' = Append(ctl, [op |-> "DoWithScope", key |-> Nil, deferPop |-> FALSE,
                           before |-> nameStack, sc |-> scope, scope |-> s])
    /\ scope' = s
    /\ last' = [op |-> "DoWithScope", scope |-> s, sc |-> scope]
    /\ expl' = AtStart(expl)
    /\ producerEvals' = 0
    /\ UNCHANGED <<explainerOn, nameStack, panic, redacted>>
    /\ UNCHANGED notScopedVars

\* ic.LookupAndConvertData(fn), up to the call of fn: under DoRedacted when
\* the type to convert to is Sensitive.
LookupAndConvertData ==
    /\ Running
    /\ LET cv == extractConversion(luOpts)
           f == [op |-> "LookupAndConvertData", key |-> Nil, deferPop |-> FALSE,
                 before |-> nameStack, conversion |-> cv]
       IN /\ IF cv.type = "Sensitive"
             THEN /\ Len(ctl) + 1 < MaxDepth
                  /\ ctl' = ctl \o <<f, RedactedFrame>>
                  /\ redacted' = TRUE
             ELSE /\ Len(ctl) < MaxDepth
                  /\ ctl' = Append(ctl, f)
                  /\ UNCHANGED redacted
          /\ last' = [op |-> "LookupAndConvertData", conversion |-> cv]
    /\ expl' = AtStart(expl)
    /\ producerEvals' = 0
    /\ UNCHANGED <<explainerOn, nameStack, panic>>
    /\ UNCHANGED scope
    /\ UNCHANGED notScopedVars

\* serverCtx.NotFound(): panic(hieraapi.NotFound), raised inside an actor
NotFound ==
    /\ Running
    /\ ctl # <<>>
    /\ panic' = "NotFound"
    /\ last' = [op |-> "panic", value |-> "NotFound"]
    /\ expl' = AtStart(expl)
    /\ UNCHANGED <<explainerOn, nameStack, ctl>>
    /\ producerEvals' = 0
    /\ UNCHANGED notFrameVars

\* An actor aborts with another error (a provider failure).
ActorError ==
    /\ Running
    /\ ctl # <<>>
    /\ panic' = "error"
    /\ last' = [op |-> "panic", value |-> "error"]
    /\ expl' = AtStart(expl)
    /\ UNCHANGED <<explainerOn, nameStack, ctl>>
    /\ producerEvals' = 0
    /\ UNCHANGED notFrameVars

\* A panic that leaves an operation without the explainer's Pop and without
\* truncating the nameStack: the clean-up is not deferred.
UnwindNotDeferred ==
    /\ ~Running
    /\ ctl # <<>>
    /\ ctl' = Front(ctl)
    /\ last' = [op |-> "unwind", of |-> ctl[Len(ctl)].op, before |-> ctl[Len(ctl)].before]
    /\ expl' = AtStart(expl)
    /\ UNCHANGED <<explainerOn, nameStack, panic>>
    /\ producerEvals' = 0
    /\ UNCHANGED notFrameVars

\* A panic leaves the innermost operation: its deferred function runs.
Unwind ==
    /\ ~Running
    /\ ctl # <<>>
    /\ RunDeferred
    /\ last' = [op |-> "unwind", of |-> ctl[Len(ctl)].op, before |-> ctl[Len(ctl)].before]
    /\ UNCHANGED <<explainerOn, panic>>
    /\ producerEvals' = 0
    /\ UNCHANGED scope
    /\ UNCHANGED notScopedVars

\* A catchNotFound that swallows whatever was raised.
RecoverAll(r) == "none"

\* if r := recover(); r != nil { if r != hieraapi.NotFound { panic(r) } }
\* What is unwinding after the deferred catchNotFound has run.
Recover(r) == IF r # "NotFound" THEN r ELSE "none"

\* catchNotFound, deferred by the caller that expects the signal, runs when
\* a panic has left every scoped operation: the NotFound signal is
\* swallowed, any other value is raised again and goes on to the top-level
\* caller, which ends the lookup.
CatchNotFound ==
    /\ panic # "none"
    /\ ctl = <<>>
    /\ last.op # "rethrow"
    /\ panic' = Recover(panic)
    /\ last' = [op |-> IF Recover(panic) = "none" THEN "recover" ELSE "rethrow",
                value |-> panic]
    /\ expl' = AtStart(expl)
    /\ UNCHANGED <<explainerOn, nameStack, ctl>>
    /\ producerEvals' = 0
    /\ UNCHANGED notFrameVars

(***************************************************************************)
(* The Report family: leaf events, delivered only to an attached explainer *)
(***************************************************************************)
Report(kind, payload) ==
    /\ Running
    /\ IF explainerOn
       THEN expl' = Accept(AtStart(expl), kind, payload)
       ELSE expl' = AtStart(expl)
    /\ last' = [op |-> "Report", kind |-> kind, payload |-> payload]
    /\ UNCHANGED <<explainerOn, nameStack, ctl, panic>>
    /\ producerEvals' = 0
    /\ UNCHANGED notFrameVars

ReportLocationNotFound == Report("LocationNotFound", Nil)
ReportFound == \E k \in Keys, v \in Values : Report("Found", <<k.source, v>>)
ReportMergeResult == \E v \in Values : Report("MergeResult", v)
ReportMergeSource == \E src \in {"CLI option", "lookup_options hash"} : Report("MergeSource", src)
ReportNotFound == \E k \in Keys : Report("NotFound", k.source)

\* A ReportText that builds the message before it looks for an explainer.
ReportTextEager ==
    /\ Running
    /\ producerEvals' = 1
    /\ IF explainerOn
       THEN expl' = Accept(AtStart(expl), "Text", "message")
       ELSE expl' = AtStart(expl)
    /\ last' = [op |-> "Report", kind |-> "Text", payload |-> "message"]
    /\ UNCHANGED <<explainerOn, nameStack, ctl, panic>>
    /\ UNCHANGED notFrameVars

\* if ic.explainer != nil { ic.explainer.AcceptText(messageProducer()) }
ReportText ==
    /\ Running
    /\ IF explainerOn
       THEN /\ producerEvals' = 1
            /\ expl' = Accept(AtStart(expl), "Text", "message")
       ELSE /\ expl' = AtStart(expl)
            /\ producerEvals' = 0
    /\ last' = [op |-> "Report", kind |-> "Text", payload |-> "message"]
    /\ UNCHANGED <<explainerOn, nameStack, ctl, panic>>
    /\ UNCHANGED notFrameVars

\* serverCtx.Explain(messageProducer): c.invocation.ReportText(messageProducer)
Explain == ReportText

(***************************************************************************)
(* Lookup.  The top-level provider, Interpolate and Dig are collaborators: *)
(* the provider returns a value or nil, or panics (NotFound, or a failure  *)
(* of its own); last.calls lists the calls Lookup made, in order.  What    *)
(* a provider tells the explainer on its own account is not Lookup's.      *)
(***************************************************************************)
ProviderOutcomes == Values \cup {Nil, "NotFound", "error"}

\* A Lookup that compares the whole key source with the reserved root.
LookupRootIsSource(k) == k.source

\* rootKey := key.Root()
LookupRoot(k) == k.root

\* A Lookup that reports not-found itself when the provider returns nil.
LookupMissReports(k) ==
    IF explainerOn THEN Accept(AtStart(expl), "NotFound", k.source) ELSE AtStart(expl)

\* v == nil: nothing is done but return v; the explainer is what it was
LookupMiss(k) == AtStart(expl)

\* A Lookup that digs into the provider's value before it interpolates.
LookupHitDigsFirst(k, v, iv, dc) ==
    <<[fn |-> "TopProvider", arg |-> k.root],
      [fn |-> "ForData", arg |-> Nil],
      [fn |-> "Dig", arg |-> v, ic |-> dc],
      [fn |-> "Interpolate", arg |-> iv, ic |-> dc]>>

\* v != nil: dc := ic.ForData(); v = dc.Interpolate(v, true); v = key.Dig(dc, v)
\* The calls Lookup makes; iv is what Interpolate returns.
LookupHit(k, v, iv, dc) ==
    <<[fn |-> "TopProvider", arg |-> k.root],
      [fn |-> "ForData", arg |-> Nil],
      [fn |-> "Interpolate", arg |-> v, ic |-> dc],
      [fn |-> "Dig", arg |-> iv, ic |-> dc]>>

Lookup ==
    /\ Running
    /\ \E k \in Keys :
         IF LookupRoot(k) = "lookup_options"
         THEN \* WithInvalidKey(key, func() { ic.ReportNotFound(key); return nil })
              LET e1 == IF explainerOn THEN Push(AtStart(expl), "InvalidKey") ELSE AtStart(expl)
                  e2 == IF explainerOn THEN Accept(e1, "NotFound", k.source) ELSE e1
                  e3 == IF explainerOn THEN Pop(e2) ELSE e2
              IN /\ expl' = e3
                 /\ last' = [op |-> "Lookup", key |-> k, calls |-> <<>>,
                             provided |-> "uncalled", result |-> Nil]
                 /\ UNCHANGED panic
                 /\ SetIc(Ic)
         ELSE \E v \in ProviderOutcomes :
              LET provider == [fn |-> "TopProvider", arg |-> k.root] IN
              IF v \in {"NotFound", "error"}
              THEN /\ panic' = v
                   /\ expl' = AtStart(expl)
                   /\ last' = [op |-> "Lookup", key |-> k, calls |-> <<provider>>,
                               provided |-> v, result |-> "panic"]
                   /\ SetIc(Ic)
              ELSE IF v = Nil
              THEN /\ expl' = LookupMiss(k)
                   /\ last' = [op |-> "Lookup", key |-> k, calls |-> <<provider>>,
                               provided |-> v, result |-> Nil]
                   /\ UNCHANGED panic
                   /\ SetIc(Ic)
              ELSE \* dc := ic.ForData(); v = dc.Interpolate(v, true); v = key.Dig(dc, v)
                   \E iv \in Values :
                   \E dv \in (IF k.path = <<>> THEN {iv} ELSE {iv, Nil}) :
                   LET dc == ForData(Ic) IN
                   /\ expl' = AtStart(expl)
                   /\ last' = [op |-> "Lookup", key |-> k,
                               calls |-> LookupHit(k, v, iv, dc.ret),
                               provided |-> v, result |-> dv, before |-> Ic]
                   /\ UNCHANGED panic
                   /\ SetIc(dc.parent)
    /\ UNCHANGED ctl
    /\ producerEvals' = 0
    /\ UNCHANGED <<configVars, cacheVars>>

FrameNext ==
    \/ \E k \in Keys : WithKey(k)
    \/ WithDataProvider
    \/ WithInterpolation
    \/ WithInvalidKey
    \/ WithLocation
    \/ WithLookup
    \/ WithMerge
    \/ WithSegment
    \/ WithSubLookup
    \/ ActorReturn
    \/ NotFound
    \/ ActorError
    \/ Unwind
    \/ CatchNotFound
    \/ ReportLocationNotFound
    \/ ReportFound
    \/ ReportMergeResult
    \/ ReportMergeSource
    \/ ReportNotFound
    \/ ReportText
    \/ Explain
    \/ Lookup

(***************************************************************************)
(* MergeLocations and invokeWithLocation.  The provider (its locations,    *)
(* Location.Exists, LookupKey) and the merge strategy are collaborators:   *)
(* a run threads the explainer, the calls made so far, the value and the   *)
(* panic through the code; last.calls lists the collaborator calls.        *)
(***************************************************************************)
MaxLocations == 2

Strategies == {"first", "deep"}

\* What LookupKey does at one location: a value, nothing, or a failure.
LookupKeyOutcomes == Values \cup {Nil, "error"}

\* The keys a provider is asked for: the reserved root never gets this far.
MergeKeys == {k \in Keys : k.root # "lookup_options"}

\* dh.Hierarchy().Locations(): per configured location, whether it exists.
LocationLists == UNION {[1..n -> BOOLEAN] : n \in 0..MaxLocations}
Locs(f) == [i \in 1..Len(f) |-> [name |-> i, exists |-> f[i]]]
NamesOf(locations) == [i \in 1..Len(locations) |-> locations[i].name]

\* A nil hieraapi.Location
NoLocation == [name |-> 0, exists |-> FALSE]

\* The data behind the provider: an outcome for each location that exists,
\* and for the call without location.
DataDomain(f) == IF Len(f) = 0 THEN {0} ELSE {i \in 1..Len(f) : f[i]}
DataAt(data, name) == IF name \in DOMAIN data THEN data[name] ELSE Nil

\* Values as a run carries them.
NilV == [type |-> "nil"]
Val(v) == [type |-> "value", v |-> v]
Merged(vs) == [type |-> "merged", vs |-> vs]

\* if ic.explainer == nil { return actor() }; defer Pop(); PushX(..)
Enter(e, kind) == IF explainerOn THEN Push(e, kind) ELSE e
Leave(e) == IF explainerOn THEN Pop(e) ELSE e
\* if ic.explainer != nil { ic.explainer.AcceptX(..) }
Tell(e, kind, payload) == IF explainerOn THEN Accept(e, kind, payload) ELSE e

\* dh.LookupKey(key, ic, location)
LookupKey(r, key, name, data) ==
    LET out == DataAt(data, name) IN
      [r EXCEPT !.calls = Append(@, [fn |-> "LookupKey", key |-> key.source,
                                     location |-> name, ret |-> out]),
                !.value = IF out \in Values THEN Val(out) ELSE NilV,
                !.panic = IF out = "error" THEN "error" ELSE @]

\* An invokeWithLocation that calls the provider whether or not the location
\* exists.
invokeWithLocationUnchecked(r, location, key, data) ==
    IF location = NoLocation
    THEN LookupKey(r, key, 0, data)
    ELSE LET r1 == [r EXCEPT !.expl = Enter(@, "Location")]
             r2 == LookupKey(r1, key, location.name, data)
         IN [r2 EXCEPT !.expl = Leave(@)]

\* ic.invokeWithLocation(dh, location, key)
invokeWithLocation(r, location, key, data) ==
    IF location = NoLocation
    THEN LookupKey(r, key, 0, data)
    ELSE LET r1 == [r EXCEPT !.expl = Enter(@, "Location"),
                             !.calls = Append(@, [fn |-> "Exists", key |-> key.source,
                                                  location |-> location.name,
                                                  ret |-> location.exists])]
             r2 == IF location.exists
                   THEN LookupKey(r1, key, location.name, data)
                   ELSE [r1 EXCEPT !.expl = Tell(@, "LocationNotFound", Nil),
                                   !.value = NilV]
         IN [r2 EXCEPT !.expl = Leave(@)]

RECURSIVE mergeMulti(_, _, _, _, _, _)
\* The strategy walks the locations in order and calls the function it was
\* given for each: "first" stops at the first value, the others collect.
mergeMulti(r, locations, key, data, merge, acc) ==
    IF locations = <<>>
    THEN [r EXCEPT !.value = IF acc = <<>> THEN NilV ELSE Merged(acc)]
    ELSE LET r1 == invokeWithLocation(r, locations[1], key, data) IN
           IF r1.panic # "none" THEN [r1 EXCEPT !.value = NilV]
           ELSE IF r1.value # NilV /\ merge = "first" THEN r1
           ELSE mergeMulti(r1, Tail(locations), key, data, merge,
                           IF r1.value = NilV THEN acc ELSE Append(acc, r1.value.v))

\* merge.MergeLookup(locations, ic, func(location) { invokeWithLocation })
MergeLookup(r, locations, key, data, merge) ==
    LET r0 == [r EXCEPT !.calls = Append(@, [fn |-> "MergeLookup", key |-> key.source,
                                             location |-> NamesOf(locations),
                                             ret |-> merge]),
                        !.expl = Enter(@, "Merge")]
        r1 == mergeMulti(r0, locations, key, data, merge, <<>>)
        r2 == IF r1.value # NilV
              THEN [r1 EXCEPT !.expl = Tell(@, "MergeResult", r1.value)]
              ELSE r1
    IN [r2 EXCEPT !.expl = Leave(@)]

\* A switch that sends a single location through the merge strategy too.
SwitchLenAlwaysMerges(locations) ==
    IF Len(locations) = 0 THEN "case 0" ELSE "default"

\* switch len(locations) { case 0: .. case 1: .. default: .. }
SwitchLen(locations) ==
    IF Len(locations) = 0 THEN "case 0"
    ELSE IF Len(locations) = 1 THEN "case 1"
    ELSE "default"

\* ic.MergeLocations(key, dh, merge)
MergeLocations ==
    /\ Running
    /\ \E k \in MergeKeys, f \in LocationLists, merge \in Strategies :
       \E data \in [DataDomain(f) -> LookupKeyOutcomes] :
         LET locations == Locs(f)
             r0 == [expl |-> Enter(AtStart(expl), "DataProvider"), calls |-> <<>>,
                    value |-> NilV, panic |-> "none"]
             r1 == CASE SwitchLen(locations) = "case 0" ->
                          invokeWithLocation(r0, NoLocation, k, data)
                    [] SwitchLen(locations) = "case 1" ->
                          invokeWithLocation(r0, locations[1], k, data)
                    [] OTHER -> MergeLookup(r0, locations, k, data, merge)
             r2 == [r1 EXCEPT !.expl = Leave(@)]
         IN /\ expl' = r2.expl
            /\ panic' = r2.panic
            /\ last' = [op |-> "MergeLocations", key |-> k.source,
                        locations |-> locations, strategy |-> merge,
                        calls |-> r2.calls,
                        result |-> IF r2.panic # "none" THEN [type |-> "panic"] ELSE r2.value]
    /\ UNCHANGED <<explainerOn, nameStack, ctl>>
    /\ producerEvals' = 0
    /\ UNCHANGED notFrameVars

MergeNext == MergeLocations

(***************************************************************************)
(* SetMergeStrategy.  The strategy factory merge.GetStrategy is a          *)
(* collaborator: it knows the four strategy names; what it does with       *)
(* another name is left open (it fails, or it has no strategy to return).  *)
(***************************************************************************)
StrategyNames == {"first", "unique", "hash", "deep"}

\* The merge options a caller passes, and the lookup options of a key.
MergeOptions == {NoOpt, Str("deep"), MapOpt(Str("hash")), MapOpt(NoOpt), IntOpt}
LookupOptionsValues ==
    {NoLuOpts} \cup
    {LuOpts(me, ct) : me \in {NoOpt, Str("unique"), MapOpt(Str("deep")), MapOpt(IntOpt), IntOpt},
                      ct \in {NoOpt, Str("Sensitive")}}

\* A selection that lets the `merge` entry of the lookup options win over
\* the explicit option.
SelectOptsLookupFirst(cliMergeOption, lookupOptions) ==
    IF lookupOptions # NoLuOpts /\ lookupOptions.merge # NoOpt
    THEN [opts |-> lookupOptions.merge, source |-> "lookup_options hash"]
    ELSE IF cliMergeOption # NoOpt
    THEN [opts |-> cliMergeOption, source |-> "CLI option"]
    ELSE [opts |-> NoOpt, source |-> "none"]

\* if cliMergeOption != nil { .. } else if lookupOptions != nil { .. }:
\* the options that decide, and the merge source that is reported
SelectOpts(cliMergeOption, lookupOptions) ==
    IF cliMergeOption # NoOpt
    THEN [opts |-> cliMergeOption, source |-> "CLI option"]
    ELSE IF lookupOptions # NoLuOpts /\ lookupOptions.merge # NoOpt
    THEN [opts |-> lookupOptions.merge, source |-> "lookup_options hash"]
    ELSE [opts |-> NoOpt, source |-> "none"]

\* switch opts := opts.(type) { case dgo.String: .. case dgo.Map: .. default: .. }
MergeName(opts) ==
    IF opts.type = "string" THEN [mergeName |-> opts.s, mergeOpts |-> "nil"]
    ELSE IF opts.type = "map"
    THEN IF opts.strategy.type = "string"
         THEN [mergeName |-> opts.strategy.s, mergeOpts |-> "without strategy"]
         ELSE [mergeName |-> "", mergeOpts |-> "nil"]
    ELSE [mergeName |-> "first", mergeOpts |-> "nil"]

\* merge.GetStrategy(mergeName, mergeOpts), for a name it knows
GetStrategy(mn) == [type |-> "strategy", name |-> mn.mergeName, opts |-> mn.mergeOpts]

\* ic.SetMergeStrategy(cliMergeOption, lookupOptions)
SetMergeStrategy ==
    /\ Running
    /\ \E cliMergeOption \in MergeOptions, lookupOptions \in LookupOptionsValues :
         LET sel == SelectOpts(cliMergeOption, lookupOptions)
             mn == MergeName(sel.opts)
         IN /\ expl' = IF sel.source # "none"
                       THEN Tell(AtStart(expl), "MergeSource", sel.source)
                       ELSE AtStart(expl)
            /\ luOpts' = lookupOptions
            /\ IF mn.mergeName \in StrategyNames
               THEN /\ strategy' = GetStrategy(mn)
                    /\ UNCHANGED panic
               ELSE \/ /\ panic' = "error"
                       /\ UNCHANGED strategy
                    \/ /\ strategy' = NoStrategy
                       /\ UNCHANGED panic
            /\ last' = [op |-> "SetMergeStrategy", cli |-> cliMergeOption,
                        lo |-> lookupOptions, mergeName |-> mn.mergeName]
    /\ producerEvals' = 0
    /\ UNCHANGED <<explainerOn, nameStack, ctl>>
    /\ UNCHANGED <<mode, explKind, scope, redacted>>
    /\ UNCHANGED <<configVars, cacheVars>>

StrategyNext == SetMergeStrategy

(***************************************************************************)
(* The provider cache (serverCtx.Cache, CacheAll, CachedValue,             *)
(* CachedEntries) over a sync.Map.                                         *)
(***************************************************************************)
Cachers == 1..NumCachers
NoCall == [at |-> "idle"]

CacheInit ==
    /\ cache = [k \in ProviderKeys |-> Absent]
    /\ hist = <<>>
    /\ cacheLast = NoOp
    /\ cacheCall = [g \in Cachers |-> NoCall]

\* A px.Value as an entry of the sync.Map.
PxVal(v) == [type |-> "px", v |-> v]

\* A px.OrderedMap handed to CacheAll: pairs with distinct keys, in order.
Hashes ==
    {<<>>}
    \cup {<<[key |-> k, value |-> v]>> : k \in ProviderKeys, v \in ProviderValues}
    \cup UNION {{<<[key |-> k1, value |-> v1], [key |-> k2, value |-> v2]>> :
                    k2 \in ProviderKeys \ {k1},
                    v1 \in ProviderValues, v2 \in ProviderValues} : k1 \in ProviderKeys}

RECURSIVE StoreAll(_, _)
\* hash.EachPair(func(k, v) { c.cache.Store(k.String(), v) })
StoreAll(m, h) ==
    IF h = <<>> THEN m ELSE StoreAll(Store(m, h[1].key, PxVal(h[1].value)), Tail(h))

\* A Cache that keeps the old value when the key is already there.
CacheKeepsOld(k, v) ==
    /\ Len(hist) < MaxWrites
    /\ LET r == LoadOrStore(cache, k, PxVal(v)) IN
          /\ cache' = r.map
          /\ cacheLast' = [op |-> "Cache", key |-> k, value |-> v,
                           ret |-> IF r.loaded THEN r.val.v ELSE Undef]
    /\ hist' = Append(hist, [key |-> k, value |-> v])
    /\ UNCHANGED cacheCall
    /\ UNCHANGED notCacheVars

\* old, loaded := c.cache.LoadOrStore(key, value)
\* if loaded { c.cache.Store(key, value) } else { old = px.Undef }
Cache(k, v) ==
    /\ Len(hist) < MaxWrites
    /\ LET r == LoadOrStore(cache, k, PxVal(v)) IN
          /\ cache' = IF r.loaded THEN Store(r.map, k, PxVal(v)) ELSE r.map
          /\ cacheLast' = [op |-> "Cache", key |-> k, value |-> v,
                           ret |-> IF r.loaded THEN r.val.v ELSE Undef]
    /\ hist' = Append(hist, [key |-> k, value |-> v])
    /\ UNCHANGED cacheCall
    /\ UNCHANGED notCacheVars

CacheAll(h) ==
    /\ Len(hist) + Len(h) <= MaxWrites
    /\ cache' = StoreAll(cache, h)
    /\ cacheLast' = [op |-> "CacheAll", hash |-> h]
    /\ hist' = hist \o h
    /\ UNCHANGED cacheCall
    /\ UNCHANGED notCacheVars

\* if v, ok := c.cache.Load(key); ok { return v, true }; return nil, false
CachedValue(k) ==
    /\ LET r == Load(cache, k) IN
          cacheLast' = [op |-> "CachedValue", key |-> k,
                        ret |-> IF r.ok THEN <<r.val.v, TRUE>> ELSE <<Nil, FALSE>>]
    /\ UNCHANGED <<cache, hist>>
    /\ UNCHANGED cacheCall
    /\ UNCHANGED notCacheVars

\* c.cache.Range: the consumer gets every entry
CachedEntries ==
    /\ cacheLast' = [op |-> "CachedEntries",
                     ret |-> {<<k, cache[k].v>> : k \in {x \in ProviderKeys : cache[x] # Absent}}]
    /\ UNCHANGED <<cache, hist>>
    /\ UNCHANGED cacheCall
    /\ UNCHANGED notCacheVars

\* Cache(key, value) called by goroutine g, first operation on the sync.Map:
\*   old, loaded := c.cache.LoadOrStore(key, value)
\* hist gets the value when the operation stored it.
CacheLoadOrStore(g, k, v) ==
    /\ cacheCall[g].at \in {"idle", "returned"}
    /\ Len(hist) + Cardinality({h \in Cachers : cacheCall[h].at = "LoadOrStore"})
          < MaxWrites
    /\ LET r == LoadOrStore(cache, k, PxVal(v)) IN
          /\ cache' = r.map
          /\ cacheCall' = [cacheCall EXCEPT ![g] =
                [at |-> "LoadOrStore", key |-> k, value |-> v, loaded |-> r.loaded,
                 old |-> IF r.loaded THEN r.val.v ELSE Undef]]
          /\ hist' = IF r.loaded THEN hist ELSE Append(hist, [key |-> k, value |-> v])
    /\ UNCHANGED cacheLast
    /\ UNCHANGED notCacheVars

\* What is in the sync.Map for k, as a px.Value (px.Undef when nothing is).
Held(k) == IF cache[k] = Absent THEN Undef ELSE cache[k].v

\* The rest of the call of goroutine g:
\*   if loaded { c.cache.Store(key, value) } else { old = px.Undef }
\*   return old.(px.Value)
\* `replaced` is what the sync.Map held for the key when the value of this
\* call went in.
CacheStore(g) ==
    /\ cacheCall[g].at = "LoadOrStore"
    /\ LET c == cacheCall[g] IN
          /\ cache' = IF c.loaded THEN Store(cache, c.key, PxVal(c.value)) ELSE cache
          /\ hist' = IF c.loaded THEN Append(hist, [key |-> c.key, value |-> c.value])
                      ELSE hist
          /\ cacheCall' = [cacheCall EXCEPT ![g] =
                [at |-> "returned", key |-> c.key, value |-> c.value,
                 loaded |-> c.loaded, old |-> c.old, ret |-> c.old,
                 replaced |-> IF c.loaded THEN Held(c.key) ELSE Undef]]
          /\ cacheLast' = [op |-> "Cache", key |-> c.key, value |-> c.value, ret |-> c.old]
    /\ UNCHANGED notCacheVars

\* Goroutines that call Cache at the same time.
ConcCacheNext ==
    \/ \E g \in Cachers, k \in ProviderKeys, v \in ProviderValues : CacheLoadOrStore(g, k, v)
    \/ \E g \in Cachers : CacheStore(g)

CacheNext ==
    \/ \E k \in ProviderKeys, v \in ProviderValues : Cache(k, v)
    \/ \E h \in Hashes : CacheAll(h)
    \/ \E k \in ProviderKeys : CachedValue(k)
    \/ CachedEntries

ConfigInit ==
    /\ sc = [k \in SharedCacheKeys |-> Absent]
    /\ wlocked = {}
    /\ readers = {}
    /\ newCount = [p \in Paths |-> 0]
    /\ built = {}
    /\ pc = [c \in Callers |-> "idle"]
    /\ arg = [c \in Callers |-> NoArg]
    /\ calls = [c \in Callers |-> 0]
    /\ myLock = [c \in Callers |-> NoLock]
    /\ lv = [c \in Callers |-> Absent]
    /\ conf = [c \in Callers |-> Absent]
    /\ configs = [c \in Callers |-> [p \in Paths |-> NoRC]]
    /\ ret = [c \in Callers |-> NoRet]

\* The call ends: locals are dropped, the result is handed to the caller.
\* ret keeps the call's arguments beside the ResolvedConfig it returned.
Return(c, p, m, rc) ==
    /\ pc' = [pc EXCEPT ![c] = "idle"]
    /\ ret' = [ret EXCEPT ![c] = [type |-> "ret", path |-> p, module |-> m, rc |-> rc]]
    /\ arg' = [arg EXCEPT ![c] = NoArg]
    /\ myLock' = [myLock EXCEPT ![c] = NoLock]
    /\ lv' = [lv EXCEPT ![c] = Absent]
    /\ conf' = [conf EXCEPT ![c] = Absent]

\* ic.Config(configPath, moduleName) is called on invocation c.
\* The memo ic.configs belongs to the invocation alone, so its lookup is
\* one step with the call:
\*   if rc, ok := ic.configs[configPath]; ok { return rc }
ConfigCall(c) ==
    /\ pc[c] = "idle"
    /\ calls[c] < MaxCalls
    /\ calls' = [calls EXCEPT ![c] = @ + 1]
    /\ \E p \in Paths, m \in Modules :
          IF configs[c][p] # NoRC
          THEN Return(c, p, m, configs[c][p])
          ELSE /\ arg' = [arg EXCEPT ![c] = [path |-> p, module |-> m]]
               /\ pc' = [pc EXCEPT ![c] = "load"]
               /\ ret' = [ret EXCEPT ![c] = NoRet]
               /\ UNCHANGED <<myLock, lv, conf>>
    /\ UNCHANGED <<sc, wlocked, readers, newCount, built, configs>>
    /\ UNCHANGED notConfigVars

\* if val, ok := sc.Load(cp); ok { ... Resolve ... }
ConfigLoad(c) ==
    /\ pc[c] = "load"
    /\ LET r == Load(sc, <<hieraConfigsPrefix, arg[c].path>>) IN
          IF r.ok
          THEN /\ conf' = [conf EXCEPT ![c] = r.val]
               /\ pc' = [pc EXCEPT ![c] = "resolve"]
          ELSE /\ pc' = [pc EXCEPT ![c] = "loadOrStore"]
               /\ UNCHANGED conf
    /\ UNCHANGED <<sc, wlocked, readers, newCount, built, arg, calls, myLock,
                   lv, configs, ret>>
    /\ UNCHANGED notConfigVars

\* A caller that publishes its lock without having locked it.
ConfigLoadOrStoreUnlocked(c) ==
    /\ pc[c] = "loadOrStore"
    /\ LET id == <<c, calls[c]>>
           r == LoadOrStore(sc, <<hieraLockPrefix, arg[c].path>>, LockVal(id))
       IN /\ myLock' = [myLock EXCEPT ![c] = id]
          /\ sc' = r.map
          /\ lv' = [lv EXCEPT ![c] = r.val]
          /\ pc' = [pc EXCEPT ![c] = IF r.loaded THEN "unlockMine" ELSE "new"]
    /\ UNCHANGED <<wlocked, readers, newCount, built, arg, calls, conf, configs, ret>>
    /\ UNCHANGED notConfigVars

\* myLock := sync.RWMutex{}; myLock.Lock(); sc.LoadOrStore(lc, &myLock)
ConfigLoadOrStore(c) ==
    /\ pc[c] = "loadOrStore"
    /\ LET id == <<c, calls[c]>>
           r == LoadOrStore(sc, <<hieraLockPrefix, arg[c].path>>, LockVal(id))
       IN /\ myLock' = [myLock EXCEPT ![c] = id]
          /\ wlocked' = wlocked \cup {id}
          /\ sc' = r.map
          /\ lv' = [lv EXCEPT ![c] = r.val]
          /\ pc' = [pc EXCEPT ![c] = IF r.loaded THEN "unlockMine" ELSE "new"]
    /\ UNCHANGED <<readers, newCount, built, arg, calls, conf, configs, ret>>
    /\ UNCHANGED notConfigVars

\* loaded: myLock.Unlock(), then the type switch on the loaded value
ConfigUnlockMine(c) ==
    /\ pc[c] = "unlockMine"
    /\ wlocked' = wlocked \ {myLock[c]}
    /\ IF lv[c].type = "lock"
       THEN /\ pc' = [pc EXCEPT ![c] = "rlock"]
            /\ UNCHANGED conf
       ELSE /\ conf' = [conf EXCEPT ![c] = lv[c]]
            /\ pc' = [pc EXCEPT ![c] = "resolve"]
    /\ UNCHANGED <<sc, readers, newCount, built, arg, calls, myLock, lv, configs, ret>>
    /\ UNCHANGED notConfigVars

\* lock.RLock(): blocks while the lock is write-locked
ConfigRLock(c) ==
    /\ pc[c] = "rlock"
    /\ lv[c].id \notin wlocked
    /\ readers' = readers \cup {<<lv[c].id, c>>}
    /\ pc' = [pc EXCEPT ![c] = "reload"]
    /\ UNCHANGED <<sc, wlocked, newCount, built, arg, calls, myLock, lv, conf,
                   configs, ret>>
    /\ UNCHANGED notConfigVars

\* val, _ := sc.Load(cp); conf = val.(hieraapi.Config)
\* The type assertion panics on a missing value (the read lock stays held).
ConfigReload(c) ==
    /\ pc[c] = "reload"
    /\ LET r == Load(sc, <<hieraConfigsPrefix, arg[c].path>>) IN
          IF r.ok
          THEN /\ conf' = [conf EXCEPT ![c] = r.val]
               /\ pc' = [pc EXCEPT ![c] = "runlock"]
          ELSE /\ pc' = [pc EXCEPT ![c] = "panicked"]
               /\ UNCHANGED conf
    /\ UNCHANGED <<sc, wlocked, readers, newCount, built, arg, calls, myLock,
                   lv, configs, ret>>
    /\ UNCHANGED notConfigVars

\* A loser that goes on to Resolve without lock.RUnlock().
ConfigRUnlockKeepsLock(c) ==
    /\ pc[c] = "runlock"
    /\ pc' = [pc EXCEPT ![c] = "resolve"]
    /\ UNCHANGED <<sc, wlocked, readers, newCount, built, arg, calls, myLock,
                   lv, conf, configs, ret>>
    /\ UNCHANGED notConfigVars

\* lock.RUnlock()
ConfigRUnlock(c) ==
    /\ pc[c] = "runlock"
    /\ readers' = readers \ {<<lv[c].id, c>>}
    /\ pc' = [pc EXCEPT ![c] = "resolve"]
    /\ UNCHANGED <<sc, wlocked, newCount, built, arg, calls, myLock, lv, conf,
                   configs, ret>>
    /\ UNCHANGED notConfigVars

\* not loaded: conf = config.New(configPath) is entered
ConfigNewBegin(c) ==
    /\ pc[c] = "new"
    /\ newCount' = [newCount EXCEPT ![arg[c].path] = @ + 1]
    /\ pc' = [pc EXCEPT ![c] = "constructing"]
    /\ UNCHANGED <<sc, wlocked, readers, built, arg, calls, myLock, lv, conf,
                   configs, ret>>
    /\ UNCHANGED notConfigVars

\* config.New returns the finished Config
ConfigNewEnd(c) ==
    /\ pc[c] = "constructing"
    /\ LET cf == ConfigVal(arg[c].path, myLock[c]) IN
          /\ built' = built \cup {cf}
          /\ conf' = [conf EXCEPT ![c] = cf]
    /\ pc' = [pc EXCEPT ![c] = "store"]
    /\ UNCHANGED <<sc, wlocked, readers, newCount, arg, calls, myLock, lv,
                   configs, ret>>
    /\ UNCHANGED notConfigVars

\* config.New panics with a configuration error; nothing in Config is
\* deferred, so myLock stays write-locked and published.
ConfigNewPanic(c) ==
    /\ pc[c] = "constructing"
    /\ pc' = [pc EXCEPT ![c] = "panicked"]
    /\ UNCHANGED <<sc, wlocked, readers, newCount, built, arg, calls, myLock,
                   lv, conf, configs, ret>>
    /\ UNCHANGED notConfigVars

\* sc.Store(cp, conf)
ConfigStore(c) ==
    /\ pc[c] = "store"
    /\ sc' = Store(sc, <<hieraConfigsPrefix, arg[c].path>>, conf[c])
    /\ pc' = [pc EXCEPT ![c] = "unlock"]
    /\ UNCHANGED <<wlocked, readers, newCount, built, arg, calls, myLock, lv,
                   conf, configs, ret>>
    /\ UNCHANGED notConfigVars

\* myLock.Unlock()
ConfigUnlock(c) ==
    /\ pc[c] = "unlock"
    /\ wlocked' = wlocked \ {myLock[c]}
    /\ pc' = [pc EXCEPT ![c] = "resolve"]
    /\ UNCHANGED <<sc, readers, newCount, built, arg, calls, myLock, lv, conf,
                   configs, ret>>
    /\ UNCHANGED notConfigVars

\* rc := Resolve(ic, conf, moduleName); ic.configs[configPath] = rc; return rc
ConfigResolve(c) ==
    /\ pc[c] = "resolve"
    /\ LET rc == Resolve(conf[c], arg[c].module) IN
          /\ configs' = [configs EXCEPT ![c][arg[c].path] = rc]
          /\ Return(c, arg[c].path, arg[c].module, rc)
    /\ UNCHANGED <<sc, wlocked, readers, newCount, built, calls>>
    /\ UNCHANGED notConfigVars

ConfigStep(c) ==
    \/ ConfigLoad(c)
    \/ ConfigLoadOrStore(c)
    \/ ConfigUnlockMine(c)
    \/ ConfigRLock(c)
    \/ ConfigReload(c)
    \/ ConfigRUnlock(c)
    \/ ConfigNewBegin(c)
    \/ ConfigNewEnd(c)
    \/ ConfigNewPanic(c)
    \/ ConfigStore(c)
    \/ ConfigUnlock(c)
    \/ ConfigResolve(c)

ConfigNext == \E c \in Callers : ConfigCall(c) \/ ConfigStep(c)

\* A fresh session and its callers; the callers' invocations run Config only.
ConfigSpecInit == ConfigInit /\ FrameInit(FALSE) /\ CacheInit

ConfigSpec == ConfigSpecInit /\ [][ConfigNext]_vars

\* One invocation, with or without an explainer, running scoped operations,
\* reports and lookups.
FrameSpecInit == ConfigInit /\ CacheInit /\ \E on \in BOOLEAN : FrameInit(on)

FrameSpec == FrameSpecInit /\ [][FrameNext]_vars

ConvertNext ==
    \/ LookupAndConvertData
    \/ DoRedacted
    \/ ReportFound
    \/ ReportMergeResult
    \/ ReportText
    \/ ActorReturn
    \/ NotFound
    \/ Unwind
    \/ CatchNotFound

\* One invocation whose lookup options have been set, with or without an
\* explainer, running data functions under LookupAndConvertData and
\* DoRedacted.
ConvertSpecInit ==
    /\ ConfigInit
    /\ CacheInit
    /\ \E kind \in {"nil", "plain"},
          lo \in {NoLuOpts} \cup {LuOpts(NoOpt, ct) : ct \in ConvertTos} :
          InvocationInit(kind, topLevelMode, FALSE, "s0", lo)

ConvertSpec == ConvertSpecInit /\ [][ConvertNext]_vars

DeriveNext ==
    \/ CallForConfig
    \/ CallForData
    \/ CallForLookupOptions
    \/ Lookup
    \/ \E k \in Keys : WithKey(k)
    \/ DoRedacted
    \/ ActorReturn

\* One invocation, as it was constructed or derived from a constructed one,
\* on which keys are looked up and further invocations derived, inside
\* WithKey and DoRedacted.
DeriveSpecInit ==
    /\ ConfigInit
    /\ CacheInit
    /\ \E ic \in Derivable(RootInvocations) :
          InvocationInit(ic.explainer, ic.mode, ic.redacted, ic.scope, ic.luOpts)

DeriveSpec == DeriveSpecInit /\ [][DeriveNext]_vars

ScopeNext ==
    \/ \E s \in Scopes : DoWithScope(s)
    \/ \E k \in Keys : WithKey(k)
    \/ ActorReturn
    \/ NotFound
    \/ ActorError
    \/ Unwind
    \/ CatchNotFound

\* One invocation, with or without an explainer, running doers under
\* DoWithScope inside and around WithKey.
ScopeSpecInit == ConfigInit /\ CacheInit /\ \E on \in BOOLEAN : FrameInit(on)

ScopeSpec == ScopeSpecInit /\ [][ScopeNext]_vars

\* One invocation, with or without an explainer, whose merge strategy is
\* set, for one key after the other.
StrategySpecInit == ConfigInit /\ CacheInit /\ \E on \in BOOLEAN : FrameInit(on)

StrategySpec == StrategySpecInit /\ [][StrategyNext]_vars

\* One invocation, with or without an explainer, asking a provider for a key
\* at the provider's locations.
MergeSpecInit == ConfigInit /\ CacheInit /\ \E on \in BOOLEAN : FrameInit(on)

MergeSpec == MergeSpecInit /\ [][MergeNext]_vars

\* One provider working on the session's provider cache, one call at a time.
CacheSpecInit == ConfigInit /\ FrameInit(FALSE) /\ CacheInit

CacheSpec == CacheSpecInit /\ [][CacheNext]_vars

\* An invocation whose providers call Cache from several goroutines.
ConcCacheSpecInit == ConfigInit /\ FrameInit(FALSE) /\ CacheInit

ConcCacheSpec == ConcCacheSpecInit /\ [][ConcCacheNext]_vars

\* Every goroutine that can take a step of its Config call eventually takes
\* it; whether and when a caller starts a call is left open.
FairConfigSpec == ConfigSpec /\ \A c \in Callers : WF_vars(ConfigStep(c))

(***************************************************************************)
(* Claims about Config                                                     *)
(***************************************************************************)
Returned(c) == ret[c] # NoRet
ConfigKey(p) == <<hieraConfigsPrefix, p>>
LockKey(p) == <<hieraLockPrefix, p>>
IsWinner(c) == myLock[c] # NoLock /\ lv[c] = LockVal(myLock[c])
IsLoser(c) == myLock[c] # NoLock /\ lv[c].type = "lock" /\ lv[c].id # myLock[c]

\* C1: however many callers race for one path, config.New(path) is entered
\* at most once, exactly once as soon as any caller has its result, and every
\* returned ResolvedConfig is derived from that one finished Config object;
\* callers on fresh invocations with the same module get equal results.
C1_SingleFlight ==
    /\ \A p \in Paths : newCount[p] <= 1
    /\ \A c \in Callers : Returned(c) =>
          /\ newCount[ret[c].path] = 1
          /\ ret[c].rc.conf \in built
          /\ ret[c].rc.conf.path = ret[c].path
    /\ \A c1, c2 \in Callers :
          (Returned(c1) /\ Returned(c2) /\ ret[c1].path = ret[c2].path) =>
             /\ ret[c1].rc.conf = ret[c2].rc.conf
             /\ (calls[c1] = 1 /\ calls[c2] = 1 /\ ret[c1].module = ret[c2].module)
                   => ret[c1].rc = ret[c2].rc

\* Three callers raced: the winner has stored and not yet unlocked, a loser
\* waits on the winner's lock, a third one already has its result.
C1_Witness ==
    \E c1, c2, c3 \in Callers :
        /\ pc[c1] = "unlock" /\ IsWinner(c1)
        /\ pc[c2] = "rlock" /\ lv[c2] = LockVal(myLock[c1])
        /\ Returned(c3) /\ calls[c3] = 1

\* C2: every started Config call eventually completes: it returns or it
\* propagates the construction error.
C2_EveryCallCompletes ==
    \A c \in Callers :
        (pc[c] \notin {"idle", "panicked"}) ~> (pc[c] \in {"idle", "panicked"})

\* C3: the value under the config key is always a finished Config, and a
\* loser that got past the wait on the lock finds it there: the only panic
\* inside Config is the winner's failed construction.
C3_NoPartialConfig ==
    /\ \A p \in Paths : sc[ConfigKey(p)] # Absent => sc[ConfigKey(p)] \in built
    /\ \A c \in Callers :
          /\ pc[c] = "reload" => sc[ConfigKey(arg[c].path)] \in built
          /\ pc[c] \in {"runlock", "resolve"} => conf[c] \in built
          /\ pc[c] = "panicked" => IsWinner(c)

\* A loser has passed the wait and is about to re-read the shared cache.
C3_Witness ==
    \E c \in Callers : pc[c] = "reload" /\ IsLoser(c)

\* C4: a caller that is about to call Resolve holds no lock: none of the
\* locks it created is write-locked and it holds no read lock.
C4_NoLockAcrossResolve ==
    \A c \in Callers : pc[c] = "resolve" =>
        /\ \A id \in wlocked : id[1] # c
        /\ \A r \in readers : r[2] # c

\* The winner and a loser are both about to call Resolve.
C4_Witness ==
    \E c1, c2 \in Callers :
        /\ pc[c1] = "resolve" /\ IsWinner(c1)
        /\ pc[c2] = "resolve" /\ IsLoser(c2)

\* C15: every Config call returns the shared Config of its path resolved for
\* the module name that this call was given.
C15_ResolvedForCallersModule ==
    \A c \in Callers : Returned(c) =>
        /\ ret[c].rc.conf = sc[ConfigKey(ret[c].path)]
        /\ ret[c].rc.module = ret[c].module

(***************************************************************************)
(* Claims about the invocation's scoped operations and reports             *)
(***************************************************************************)
NoDup(q) == \A i, j \in 1..Len(q) : q[i] = q[j] => i = j
IsWithKey(f) == f.op = "WithKey"
IsWith(f) == f.op \in WithKinds
KeysOf(frames) == [i \in 1..Len(frames) |-> frames[i].key]
KindsOf(frames) == [i \in 1..Len(frames) |-> frames[i].op]
LogEntry(call, kind, payload, frame) ==
    [call |-> call, kind |-> kind, payload |-> payload, frame |-> frame]

\* C5: the nameStack never holds a source twice and is exactly the keys of
\* the WithKey calls whose actor is running; a WithKey for a source that is
\* already there raised the recursive-lookup error and pushed nothing.
C5_NameStackNoDuplicates ==
    /\ NoDup(nameStack)
    /\ nameStack = KeysOf(SelectSeq(ctl, IsWithKey))
    /\ (last.op = "WithKey" /\ last.recursive) =>
          /\ panic = "recursive"
          /\ Cardinality({i \in 1..Len(nameStack) : nameStack[i] = last.key}) = 1

\* A key two levels down asks for the outermost key again.
C5_Witness ==
    /\ last.op = "WithKey" /\ last.recursive
    /\ Len(nameStack) = 2
    /\ nameStack[1] = last.key

\* C7: with an explainer, the explainer's frames are exactly the With
\* operations whose actor is running: each With call made one push, each
\* end of an actor, by return or by panic, made one pop.
C7_FramesBalanced ==
    explainerOn =>
        /\ expl.stack = KindsOf(SelectSeq(ctl, IsWith))
        /\ last.op = "With" =>
              expl.log = <<LogEntry("Push", last.kind, Nil, Top(Front(expl.stack)))>>
        /\ (last.op \in {"return", "unwind"} /\ last.of \in WithKinds) =>
              expl.log = <<LogEntry("Pop", last.of, Nil, last.of)>>
        /\ ctl = <<>> => expl.stack = <<>>

\* A panic has left the inner of two nested With operations; the outer one
\* is still to be left.
C7_Witness ==
    /\ explainerOn
    /\ panic # "none"
    /\ last.op = "unwind" /\ last.of \in WithKinds
    /\ Len(ctl) = 1 /\ IsWith(ctl[1])

\* C8: without an explainer nothing reaches an explainer and no message
\* producer is evaluated; a With operation just runs its actor, once.
C8_NoExplainerNoOp ==
    ~explainerOn =>
        /\ producerEvals = 0
        /\ expl = NewExplainer
        /\ last.op = "With" =>
              /\ last.actorRuns = 1
              /\ ctl # <<>> /\ ctl[Len(ctl)].op = last.kind

\* ReportText was called inside a With operation, with no explainer.
C8_Witness ==
    /\ ~explainerOn
    /\ last.op = "Report" /\ last.kind = "Text"
    /\ ctl # <<>> /\ IsWith(ctl[Len(ctl)])

\* C17: NotFound raises the NotFound signal; catchNotFound ends a panic only
\* if its value is that signal, and hands every other value on as it was.
C17_OnlyNotFoundRecovered ==
    /\ (last.op = "panic" /\ last.value = "NotFound") => panic = "NotFound"
    /\ last.op = "recover" => (last.value = "NotFound" /\ panic = "none")
    /\ last.op = "rethrow" => (last.value # "NotFound" /\ panic = last.value)
    /\ last.op \in {"panic", "unwind"} => panic # "none"

\* A provider failure went through catchNotFound and is still unwinding.
C17_Witness ==
    /\ last.op = "rethrow"
    /\ last.value = "error"
    /\ panic = "error"

IsInnermostWithKey(i) ==
    IsWithKey(ctl[i]) /\ \A j \in (i+1)..Len(ctl) : ~IsWithKey(ctl[j])

\* C18: while the actor of WithKey(key, actor) runs, the nameStack starts
\* with what it was before the call followed by the key's source, and that
\* source is its last element until the actor calls WithKey itself; when
\* WithKey ends, by return, by panic or by refusing a recursion, the
\* nameStack is what it was before the call.
C18_WithKeyBalanced ==
    /\ \A i \in 1..Len(ctl) : IsWithKey(ctl[i]) =>
          LET during == Append(ctl[i].before, ctl[i].key) IN
            /\ Len(nameStack) >= Len(during)
            /\ SubSeq(nameStack, 1, Len(during)) = during
            /\ IsInnermostWithKey(i) => nameStack = during
    /\ (last.op \in {"return", "unwind"} /\ last.of = "WithKey") =>
          nameStack = last.before
    /\ (last.op = "WithKey" /\ last.recursive) => nameStack = last.before

\* The recursive-lookup error raised two keys down has left the inner
\* WithKey; the outer one is still to be left.
C18_Witness ==
    /\ panic = "recursive"
    /\ last.op = "unwind" /\ last.of = "WithKey"
    /\ nameStack = <<"a">>
    /\ Len(ctl) = 1

(***************************************************************************)
(* Claims about Lookup                                                     *)
(***************************************************************************)
IsLookup == last.op = "Lookup"
ProviderCall(k) == [fn |-> "TopProvider", arg |-> k.root]

\* C9: a Lookup of a key rooted at lookup_options calls no provider, returns
\* undefined, and tells an attached explainer not-found for the key inside
\* an invalid-key frame that it pushes and pops.
C9_LookupOptionsKey ==
    (IsLookup /\ last.key.root = "lookup_options") =>
        /\ last.calls = <<>>
        /\ last.result = Nil
        /\ panic = "none"
        /\ expl.log =
             IF explainerOn
             THEN <<LogEntry("Push", "InvalidKey", Nil, Top(expl.stack)),
                    LogEntry("Accept", "NotFound", last.key.source, "InvalidKey"),
                    LogEntry("Pop", "InvalidKey", Nil, "InvalidKey")>>
             ELSE <<>>

\* lookup_options.a was looked up with an explainer attached.
C9_Witness ==
    /\ IsLookup /\ last.key.source = "lookup_options.a"
    /\ explainerOn

\* C10 as claimed: when the provider returns undefined for an ordinary key,
\* Lookup reports not-found to the explainer and returns undefined without
\* interpolating or digging.
C10_MissReportsNotFound ==
    (IsLookup /\ last.key.root # "lookup_options" /\ last.provided = Nil) =>
        /\ explainerOn =>
              \E i \in 1..Len(expl.log) :
                  expl.log[i].call = "Accept" /\ expl.log[i].kind = "NotFound"
        /\ last.result = Nil
        /\ last.calls = <<ProviderCall(last.key)>>

\* C10 amended: when the provider returns undefined for an ordinary key,
\* Lookup returns undefined after that one provider call, without
\* interpolating or digging, and tells the explainer nothing itself.
C10_MissReturnsUndefined ==
    (IsLookup /\ last.key.root # "lookup_options" /\ last.provided = Nil) =>
        /\ expl.log = <<>>
        /\ last.result = Nil
        /\ last.calls = <<ProviderCall(last.key)>>
        /\ panic = "none"

\* a.b was looked up with an explainer attached and the provider had nothing.
C10_Witness ==
    /\ IsLookup /\ last.key.source = "a.b" /\ last.provided = Nil
    /\ explainerOn

(***************************************************************************)
(* Claims about the provider cache                                         *)
(***************************************************************************)
WritesTo(h, k) == {i \in 1..Len(h) : h[i].key = k}
Latest(h, k) ==
    LET I == WritesTo(h, k) IN h[CHOOSE i \in I : \A j \in I : j <= i].value

\* C6: Cache returns what the latest earlier write stored for the key, or
\* the undefined sentinel, and leaves the key mapped to its value;
\* CachedValue reports the latest write and true, or nothing and false; the
\* cache always holds, per key, the latest write.
C6_CacheLastWriteWins ==
    /\ \A k \in ProviderKeys :
          cache[k] = IF WritesTo(hist, k) = {} THEN Absent ELSE PxVal(Latest(hist, k))
    /\ cacheLast.op = "Cache" =>
          /\ cacheLast.ret = IF WritesTo(Front(hist), cacheLast.key) = {}
                             THEN Undef
                             ELSE Latest(Front(hist), cacheLast.key)
          /\ cache[cacheLast.key] = PxVal(cacheLast.value)
    /\ cacheLast.op = "CachedValue" =>
          cacheLast.ret = IF WritesTo(hist, cacheLast.key) = {}
                          THEN <<Nil, FALSE>>
                          ELSE <<Latest(hist, cacheLast.key), TRUE>>

\* Cache("x", "v1") and then Cache("x", "v2"), which returned "v1".
C6_Witness ==
    /\ hist = <<[key |-> "x", value |-> "v1"], [key |-> "x", value |-> "v2"]>>
    /\ cacheLast = [op |-> "Cache", key |-> "x", value |-> "v2", ret |-> "v1"]

\* C22: in every interleaving of concurrent Cache calls, the value a call
\* returns is the value that its own store replaced (the undefined sentinel
\* when the key was not there): of two calls that met the same value under
\* a key, only one gets it back.
C22_CacheAtomicSwap ==
    \A g \in Cachers :
       cacheCall[g].at = "returned" => cacheCall[g].ret = cacheCall[g].replaced

(***************************************************************************)
(* Claims about MergeLocations                                             *)
(***************************************************************************)
IsMergeLocations == last.op = "MergeLocations"
CallIdx(fn) == {i \in 1..Len(last.calls) : last.calls[i].fn = fn}
LogIdx(call, kind) ==
    {i \in 1..Len(expl.log) : expl.log[i].call = call /\ expl.log[i].kind = kind}

\* C11: with no location MergeLocations makes one LookupKey call without
\* location and asks for no existence; with one location it makes at most
\* one LookupKey call, for that location, and the merge strategy is not
\* used; with more it hands all locations, in their order, to the strategy,
\* which visits them in that order.
C11_MergeLocationsByCount ==
    IsMergeLocations =>
      LET n == Len(last.locations)
          c == last.calls
      IN /\ n = 0 =>
               /\ Len(c) = 1
               /\ c[1].fn = "LookupKey" /\ c[1].location = 0
               /\ c[1].key = last.key
         /\ n = 1 =>
               /\ CallIdx("MergeLookup") = {}
               /\ LogIdx("Push", "Merge") = {}
               /\ Cardinality(CallIdx("LookupKey")) <= 1
               /\ \A i \in CallIdx("LookupKey") : c[i].location = last.locations[1].name
         /\ n >= 2 =>
               /\ c[1] = [fn |-> "MergeLookup", key |-> last.key,
                          location |-> NamesOf(last.locations),
                          ret |-> last.strategy]
               /\ CallIdx("MergeLookup") = {1}
               /\ \A i, j \in CallIdx("Exists") : i < j => c[i].location < c[j].location
               /\ explainerOn => Cardinality(LogIdx("Push", "Merge")) = 1

\* Two locations that both exist, merged with a collecting strategy: both
\* were asked, and the two values were merged.
C11_Witness ==
    /\ IsMergeLocations
    /\ Len(last.locations) = 2
    /\ last.strategy = "deep"
    /\ Cardinality(CallIdx("LookupKey")) = 2
    /\ last.result = Merged(<<"v1", "v2">>)

\* C12: LookupKey is called for a location only right after Exists answered
\* true for it; after a false answer location-not-found is reported inside
\* the location's frame, nothing is raised, and the candidates after it are
\* evaluated as if the location had held nothing.
C12_ExistsBeforeLookupKey ==
    IsMergeLocations =>
      LET c == last.calls
          Stops(i) == \/ c[i].ret = "error"
                      \/ (c[i].ret \in Values /\ last.strategy = "first")
      IN /\ \A i \in CallIdx("LookupKey") : c[i].location # 0 =>
               /\ i > 1
               /\ c[i-1].fn = "Exists"
               /\ c[i-1].location = c[i].location
               /\ c[i-1].ret = TRUE
         /\ \A i \in CallIdx("Exists") :
               /\ c[i].ret = last.locations[c[i].location].exists
               /\ c[i].ret = FALSE =>
                     (i = Len(c) \/ c[i+1].fn = "Exists")
               /\ c[i].ret = TRUE =>
                     (i < Len(c) /\ c[i+1].fn = "LookupKey")
         /\ explainerOn =>
               /\ Cardinality(LogIdx("Accept", "LocationNotFound"))
                     = Cardinality({i \in CallIdx("Exists") : c[i].ret = FALSE})
               /\ \A i \in LogIdx("Accept", "LocationNotFound") :
                     expl.log[i].frame = "Location"
         /\ (panic # "none") <=> (\E i \in CallIdx("LookupKey") : c[i].ret = "error")
         /\ \A j \in 1..Len(last.locations) :
               (\E i \in CallIdx("Exists") : c[i].location = j)
                  <=> (\A i \in CallIdx("LookupKey") : c[i].location < j => ~Stops(i))

\* The first of two locations does not exist, the second does and holds a
\* value: it was asked, with an explainer attached.
C12_Witness ==
    /\ IsMergeLocations
    /\ explainerOn
    /\ Len(last.locations) = 2
    /\ ~last.locations[1].exists
    /\ \E i \in CallIdx("LookupKey") :
          last.calls[i].location = 2 /\ last.calls[i].ret = "v1"
    /\ LogIdx("Accept", "LocationNotFound") # {}
    /\ panic = "none"

(***************************************************************************)
(* Claims about redaction                                                  *)
(***************************************************************************)
IsDoRedacted(f) == f.op = "DoRedacted"
IsSensitive(f) == f.op = "LookupAndConvertData" /\ f.conversion.type = "Sensitive"
CarriesRawValue(e) ==
    /\ e.call = "Accept"
    /\ \/ e.kind = "Found" /\ e.payload[2] \in Values
       \/ e.kind = "MergeResult" /\ e.payload \in Values

\* C14: while a data function runs under a LookupAndConvertData whose
\* convert_to is the sensitive type, no found event and no merge result
\* delivered to the explainer carries the raw value.
C14_NoRawValueWhenSensitive ==
    (\E i \in 1..Len(ctl) : IsSensitive(ctl[i])) =>
        \A i \in 1..Len(expl.log) : ~CarriesRawValue(expl.log[i])

\* C20: the redaction flag is set while any doer of DoRedacted runs, also
\* after an inner DoRedacted has ended; when a DoRedacted call ends, by
\* return or by panic, with no other one running, the flag is what it was
\* before that call; with no doer running it is clear.
C20_RedactedWhileDoerRuns ==
    /\ (\E i \in 1..Len(ctl) : IsDoRedacted(ctl[i])) => redacted
    /\ \A i \in 1..Len(ctl) : IsDoRedacted(ctl[i]) =>
          ctl[i].was = (\E j \in 1..(i-1) : IsDoRedacted(ctl[j]))
    /\ (\A i \in 1..Len(ctl) : ~IsDoRedacted(ctl[i])) => ~redacted

\* An inner DoRedacted has returned while the doer of the outer one runs.
C20_Witness ==
    /\ last.op = "return" /\ last.of = "DoRedacted"
    /\ Len(ctl) = 1 /\ IsDoRedacted(ctl[1])
    /\ redacted

(***************************************************************************)
(* Claims about SetMergeStrategy                                           *)
(***************************************************************************)
IsSetMergeStrategy == last.op = "SetMergeStrategy"
HasMerge(lo) == lo # NoLuOpts /\ lo.merge # NoOpt
NamesStrategy(o) == o.type = "string" \/ (o.type = "map" /\ o.strategy.type = "string")
NameIn(o) == IF o.type = "string" THEN o.s ELSE o.strategy.s
MergeSourceLog(src) ==
    IF explainerOn THEN <<LogEntry("Accept", "MergeSource", src, NoFrame)>> ELSE <<>>

\* C16: an explicit merge option decides the strategy whenever one is
\* given, whatever the lookup options hold; without one the `merge` entry
\* of the lookup options decides; without either the strategy is `first`.
\* The merge source reported is the one that decided, and the lookup
\* options of the invocation are the ones given, in every case.
C16_MergeOptionPrecedence ==
    IsSetMergeStrategy =>
      LET cli == last.cli
          lo == last.lo
      IN /\ luOpts = lo
         /\ cli # NoOpt =>
               /\ expl.log = MergeSourceLog("CLI option")
               /\ NamesStrategy(cli) =>
                     (panic = "none" /\ strategy.type = "strategy"
                        /\ strategy.name = NameIn(cli))
         /\ (cli = NoOpt /\ HasMerge(lo)) =>
               /\ expl.log = MergeSourceLog("lookup_options hash")
               /\ NamesStrategy(lo.merge) =>
                     (panic = "none" /\ strategy.type = "strategy"
                        /\ strategy.name = NameIn(lo.merge))
         /\ (cli = NoOpt /\ ~HasMerge(lo)) =>
               /\ expl.log = <<>>
               /\ panic = "none"
               /\ strategy.type = "strategy" /\ strategy.name = "first"

\* An explicit `deep` met lookup options that ask for `unique`.
C16_Witness ==
    /\ IsSetMergeStrategy
    /\ explainerOn
    /\ last.cli = Str("deep")
    /\ HasMerge(last.lo) /\ last.lo.merge = Str("unique")
    /\ strategy.name = "deep"

\* The option SetMergeStrategy goes by: the explicit one, else the `merge`
\* entry of the lookup options.
EffectiveOption ==
    IF last.cli # NoOpt THEN last.cli
    ELSE IF HasMerge(last.lo) THEN last.lo.merge ELSE NoOpt

\* C23: when the effective merge option names no strategy (none given, a map
\* without a string `strategy` entry, or a value of another type)
\* SetMergeStrategy makes `first` the active strategy, and the name handed
\* to the strategy factory is never empty.
C23_UnnamedMeansFirst ==
    IsSetMergeStrategy =>
      /\ last.mergeName # ""
      /\ ~NamesStrategy(EffectiveOption) =>
            /\ panic = "none"
            /\ strategy.type = "strategy" /\ strategy.name = "first"

(***************************************************************************)
(* Claims about derived invocations                                        *)
(***************************************************************************)
IsDerivation == last.op \in {"ForConfig", "ForData", "ForLookupOptions"}

\* C13: ForData, ForConfig and ForLookupOptions leave the invocation they are
\* called on as it was (mode, explainer, redaction flag, scope, nameStack);
\* what ForData returns is in data mode, what ForLookupOptions returns is in
\* lookup-options mode, what ForConfig returns has no explainer, and the
\* returned invocation has the scope, flag and nameStack of its parent.
C13_DerivationsLeaveParent ==
    IsDerivation =>
        /\ Ic = last.before
        /\ last.op = "ForData" => last.ret.mode = dataMode
        /\ last.op = "ForLookupOptions" => last.ret.mode = lookupOptionsMode
        /\ last.op = "ForConfig" => last.ret.explainer = "nil"
        /\ last.ret.scope = last.before.scope
        /\ last.ret.redacted = last.before.redacted
        /\ last.ret.nameStack = last.before.nameStack
        /\ last.same => last.ret = last.before

\* ForData made a copy of a top-level invocation that has an explainer, a
\* key in progress and the redaction flag set.
C13_Witness ==
    /\ last.op = "ForData" /\ ~last.same
    /\ mode = topLevelMode
    /\ explainerOn
    /\ redacted
    /\ nameStack # <<>>

\* C19: when the provider returns a value, Lookup has called the provider
\* once, with the key's root, then interpolated that value and then dug
\* into the interpolated value, both with one invocation that is in data
\* mode; the invocation Lookup was called on is as it was.
C19_HitInterpolatesThenDigs ==
    (IsLookup /\ last.provided \in Values) =>
        /\ Len(last.calls) = 4
        /\ last.calls[1] = ProviderCall(last.key)
        /\ last.calls[2].fn = "ForData"
        /\ last.calls[3].fn = "Interpolate" /\ last.calls[3].arg = last.provided
        /\ last.calls[4].fn = "Dig"
        /\ last.calls[3].ic.mode = dataMode
        /\ last.calls[4].ic = last.calls[3].ic
        /\ last.result \in {last.calls[4].arg, Nil}
        /\ Ic = last.before
        /\ panic = "none"

\* a.b was found by a Lookup on an invocation in lookup-options mode.
C19_Witness ==
    /\ IsLookup /\ last.key.source = "a.b" /\ last.provided = "v1"
    /\ mode = lookupOptionsMode

(***************************************************************************)
(* Claims about DoWithScope                                                *)
(***************************************************************************)
IsDoWithScope(f) == f.op = "DoWithScope"

\* C21: while the doer of DoWithScope(scope, doer) runs the invocation's
\* scope is the given one, and when the call has ended, by return or by a
\* panic (the NotFound signal or another error), the scope is again what it
\* was before the call.
C21_ScopeRestored ==
    /\ \A i \in 1..Len(ctl) :
          (IsDoWithScope(ctl[i]) /\ \A j \in (i+1)..Len(ctl) : ~IsDoWithScope(ctl[j]))
             => scope = ctl[i].scope
    /\ \A i \in 1..Len(ctl) :
          (IsDoWithScope(ctl[i]) /\ \A j \in 1..(i-1) : ~IsDoWithScope(ctl[j]))
             => ctl[i].sc = "s0"
    /\ (\A i \in 1..Len(ctl) : ~IsDoWithScope(ctl[i])) => scope = "s0"

====
